---- MODULE Spec2Model ----
(***************************************************************************)
(* A model of the metric computations of the NovaMart marketing dashboard: *)
(* the KPI aggregation (visualizations/utils.py, app.py), the binary       *)
(* classifier evaluation (confusion matrix, ROC/AUC), the funnel           *)
(* transition analysis (pages/attribution_funnel.py, app.py) and the       *)
(* geographic opportunity score (pages/geographic_analysis.py).            *)
(*                                                                         *)
(* Numbers the code computes with true division are kept as exact          *)
(* fractions [kind, n, d]; kind is "num", "nan" (0/0) or "inf" (x/0), the  *)
(* outcomes of a numpy/pandas division.  A Python exception is the         *)
(* "outcome" field of the result of the operation that raised it.          *)
(***************************************************************************)
EXTENDS Integers, Sequences, FiniteSets, TLC

VARIABLES
    campaign_df,      \* data['campaign_performance']
    kpis,             \* result of the last KPI computation
    y_true,           \* lead_scoring_results['actual_converted']
    y_pred,           \* lead_scoring_results['predicted_class']
    y_prob,           \* lead_scoring_results['predicted_probability']
    cm_result,        \* result of the last confusion-matrix computation
    roc_result,       \* result of the last ROC computation
    funnel_df,        \* data['funnel_data']
    funnel_view,      \* what the last funnel presentation produced
    geo_df,           \* data['geographic_data']
    growth_analysis,  \* result of the last opportunity scoring
    dated_df,         \* the campaign table as the revenue time series read it
    series,           \* result of the last revenue time-series aggregation
    product_df,       \* data['product_sales']
    customer_df,      \* the customer table given to prepare_sunburst_data
    hierarchy,        \* the last hierarchy table built for a treemap or a sunburst
    channel_df,       \* the campaign table as the channel ranking reads it
    channel_perf,     \* the last per-channel ranking
    files,            \* the dataset names whose CSV file is in the data directory
    data,             \* the datasets main got from load_all_data
    page_view         \* how the last load or render ended

vars == <<campaign_df, kpis, y_true, y_pred, y_prob, cm_result, roc_result,
          funnel_df, funnel_view, geo_df, growth_analysis, dated_df, series,
          product_df, customer_df, hierarchy,
          channel_df, channel_perf,
          files, data, page_view>>

(***************************************************************************)
(* Bounds of the model.                                                    *)
(***************************************************************************)
MaxRows == 2        \* rows of the campaign table
MaxLabels == 3      \* length of a label / prediction / probability sequence
MaxStages == 3      \* rows of the funnel table
MaxStates == 2      \* rows of the geographic table
MaxRecords == 3     \* rows of the dated campaign table
MaxProducts == 3    \* rows of the product table and of the customer table
MaxChannelRows == 3 \* rows of the campaign table of the channel ranking

(***************************************************************************)
(* Numbers.                                                                *)
(***************************************************************************)
Num(a, b) == [kind |-> "num", n |-> a, d |-> b]
NaN == [kind |-> "nan", n |-> 0, d |-> 1]
Inf == [kind |-> "inf", n |-> 1, d |-> 1]
Zero == Num(0, 1)

\* numpy / pandas true division of two integers: never raises
TrueDiv(a, b) ==
    IF b = 0 THEN (IF a = 0 THEN NaN ELSE Inf) ELSE Num(a, b)

\* a fraction times an integer
Scale(q, k) == IF q.kind = "num" THEN Num(q.n * k, q.d) ELSE q

IsNum(q) == q.kind = "num"
RatEq(q, a, b) == IsNum(q) /\ q.n * b = a * q.d
RatLe(p, q) == p.n * q.d <= q.n * p.d

SeqN(S, n) == [1..n -> S]
SeqUpTo(S, n) == UNION {SeqN(S, k) : k \in 0..n}

RECURSIVE SumSeq(_)
SumSeq(s) == IF s = <<>> THEN 0 ELSE Head(s) + SumSeq(Tail(s))

(***************************************************************************)
(* KPI aggregation.                                                        *)
(* A campaign table has n rows and some of the columns revenue, spend,     *)
(* conversions, clicks, ctr; an absent column is the empty sequence.  The  *)
(* table pd.DataFrame() the loader yields for a missing file has no row    *)
(* and no column.  A table with rows and none of these columns still has   *)
(* its other columns (date, channel, ...).                                 *)
(***************************************************************************)
KpiColumns == {"revenue", "spend", "conversions", "clicks", "ctr"}
RevenueValues == {50, 100}
SpendValues == {0, 50}
ConversionValues == {2, 5}
ClickValues == {0, 10, 20}
CtrValues == {2}

ColumnValues(c) ==
    CASE c = "revenue" -> RevenueValues
      [] c = "spend" -> SpendValues
      [] c = "conversions" -> ConversionValues
      [] c = "clicks" -> ClickValues
      [] OTHER -> CtrValues

Column(P, c, n) == IF c \in P THEN SeqN(ColumnValues(c), n) ELSE {<<>>}

CampaignTables ==
    UNION { [n : {n}, columns : {P},
             revenue : Column(P, "revenue", n),
             spend : Column(P, "spend", n),
             conversions : Column(P, "conversions", n),
             clicks : Column(P, "clicks", n),
             ctr : Column(P, "ctr", n)] :
            n \in 0..MaxRows, P \in SUBSET KpiColumns }

\* pd.DataFrame(): what the loader yields for a missing file
NoCampaign ==
    [n |-> 0, columns |-> {}, revenue |-> <<>>, spend |-> <<>>,
     conversions |-> <<>>, clicks |-> <<>>, ctr |-> <<>>]

NoKpis ==
    [by |-> "none", outcome |-> "none",
     total_revenue |-> 0, total_conversions |-> 0, total_spend |-> 0,
     roas |-> Zero, avg_ctr |-> Zero, avg_conversion_rate |-> Zero]

\* df[c] of a column the table lacks raises KeyError
FirstMissing(df, cs) ==
    LET missing == {i \in 1..Len(cs) : cs[i] \notin df.columns}
    IN  IF missing = {} THEN 0
        ELSE CHOOSE i \in missing : \A j \in missing : i <= j

calculate_kpis_roas_mutant(total_revenue, total_spend) ==
    IF total_spend > 0 THEN TrueDiv(total_spend, total_revenue) ELSE Zero

\* utils.py:61
calculate_kpis_roas(total_revenue, total_spend) ==
    IF total_spend > 0 THEN TrueDiv(total_revenue, total_spend) ELSE Zero

avg_conversion_rate_mutant(df, total_conversions) ==
    IF "clicks" \in df.columns /\ SumSeq(df.clicks) > 0
    THEN TrueDiv(total_conversions, SumSeq(df.clicks))
    ELSE Zero

\* utils.py:69: (total_conversions / df['clicks'].sum() * 100)
\* if 'clicks' in df.columns and df['clicks'].sum() > 0 else 0
avg_conversion_rate_of(df, total_conversions) ==
    IF "clicks" \in df.columns /\ SumSeq(df.clicks) > 0
    THEN Scale(TrueDiv(total_conversions, SumSeq(df.clicks)), 100)
    ELSE Zero

\* utils.py:56-70
calculate_kpis(df) ==
    IF FirstMissing(df, <<"revenue", "conversions", "spend">>) # 0
    THEN [NoKpis EXCEPT !.by = "calculate_kpis", !.outcome = "KeyError"]
    ELSE
      LET total_revenue == SumSeq(df.revenue)
          total_conversions == SumSeq(df.conversions)
          total_spend == SumSeq(df.spend)
      IN  [by |-> "calculate_kpis", outcome |-> "ok",
           total_revenue |-> total_revenue,
           total_conversions |-> total_conversions,
           total_spend |-> total_spend,
           roas |-> calculate_kpis_roas(total_revenue, total_spend),
           avg_ctr |-> IF "ctr" \in df.columns
                       THEN TrueDiv(SumSeq(df.ctr), df.n) ELSE Zero,
           avg_conversion_rate |->
               avg_conversion_rate_of(df, total_conversions)]

\* DataFrame.empty: an axis of length 0
IsEmpty(df) == df.n = 0

spend_or_default_mutant(df) ==
    IF "spend" \in df.columns /\ SumSeq(df.spend) > 0
    THEN SumSeq(df.spend) ELSE 1

\* app.py:77: spend = campaign_df['spend'].sum() if 'spend' in columns else 1
spend_or_default(df) ==
    IF "spend" \in df.columns THEN SumSeq(df.spend) ELSE 1

\* app.py:64-79, the KPI cards of render_executive_overview
render_executive_overview_kpis(df) ==
    IF IsEmpty(df)
    THEN [NoKpis EXCEPT !.by = "render_executive_overview",
                        !.outcome = "not_available"]
    ELSE
      LET total_revenue == IF "revenue" \in df.columns
                           THEN SumSeq(df.revenue) ELSE 0
          total_conversions == IF "conversions" \in df.columns
                               THEN SumSeq(df.conversions) ELSE 0
          spend == spend_or_default(df)
      IN  [NoKpis EXCEPT !.by = "render_executive_overview",
                         !.outcome = "ok",
                         !.total_revenue = total_revenue,
                         !.total_conversions = total_conversions,
                         !.total_spend = spend,
                         !.roas = IF spend > 0
                                  THEN TrueDiv(total_revenue, spend)
                                  ELSE Zero]

KpiUnchanged ==
    UNCHANGED <<campaign_df, y_true, y_pred, y_prob, cm_result, roc_result,
                funnel_df, funnel_view, geo_df, growth_analysis,
                dated_df, series,
                product_df, customer_df, hierarchy,
                channel_df, channel_perf,
                files, data, page_view>>

\* pages/executive_overview.py:19-23: kpis = calculate_kpis(campaign_df)
CalculateKpis ==
    /\ kpis' = calculate_kpis(campaign_df)
    /\ KpiUnchanged

\* app.py:59-91
RenderExecutiveOverview ==
    /\ kpis' = render_executive_overview_kpis(campaign_df)
    /\ KpiUnchanged

(***************************************************************************)
(* Binary classifier evaluation.  Labels are integers; probabilities are   *)
(* in percent (50 is 0.5, 150 is 1.5).                                     *)
(***************************************************************************)
LabelValues == {0, 1, 2}
ProbValues == {0, 50, 100, 150}

Classes(y) == {y[i] : i \in DOMAIN y}
Count(y_t, y_p, a, b) ==
    Cardinality({i \in DOMAIN y_t : y_t[i] = a /\ y_p[i] = b})

Min(S) == CHOOSE x \in S : \A y \in S : x <= y
Max(S) == CHOOSE x \in S : \A y \in S : x >= y

RECURSIVE Ascending(_)
Ascending(S) == IF S = {} THEN <<>> ELSE <<Min(S)>> \o Ascending(S \ {Min(S)})

RECURSIVE Descending(_)
Descending(S) ==
    IF S = {} THEN <<>> ELSE <<Max(S)>> \o Descending(S \ {Max(S)})

NoCm ==
    [by |-> "none", outcome |-> "none", tn |-> 0, fp |-> 0, fn |-> 0, tp |-> 0,
     sensitivity |-> Zero, specificity |-> Zero, precision |-> Zero,
     accuracy |-> Zero]

confusion_matrix_ravel_mutant(y_t, y_p) ==
    LET m == IF Len(y_t) <= Len(y_p) THEN Len(y_t) ELSE Len(y_p)
        t == SubSeq(y_t, 1, m)
        p == SubSeq(y_p, 1, m)
        labels == Ascending(Classes(t) \cup Classes(p))
        n == Len(labels)
    IN  [outcome |-> "ok",
         cells |-> [k \in 1..(n * n) |->
                      Count(t, p, labels[((k - 1) \div n) + 1],
                                  labels[((k - 1) % n) + 1])]]

\* sklearn.metrics.confusion_matrix(y_true, y_pred).ravel(): the counts of
\* (true label, predicted label) over the sorted labels that occur in either
\* sequence, row by row; ValueError when the lengths differ
confusion_matrix_ravel(y_t, y_p) ==
    IF Len(y_t) # Len(y_p) THEN [outcome |-> "ValueError", cells |-> <<>>]
    ELSE
      LET labels == Ascending(Classes(y_t) \cup Classes(y_p))
          n == Len(labels)
      IN  [outcome |-> "ok",
           cells |-> [k \in 1..(n * n) |->
                        Count(y_t, y_p, labels[((k - 1) \div n) + 1],
                                        labels[((k - 1) % n) + 1])]]

\* utils.py:83, ml_model_evaluation.py:69
accuracy_of(tp, tn, fp, fn) == TrueDiv(tp + tn, tp + tn + fp + fn)

\* utils.py:76-84, ml_model_evaluation.py:40,66-69: tn, fp, fn, tp = cm.ravel()
\* raises ValueError unless the matrix has exactly four cells
confusion_metrics(by, r) ==
    IF r.outcome # "ok" \/ Len(r.cells) # 4
    THEN [NoCm EXCEPT !.by = by, !.outcome = "ValueError"]
    ELSE
      LET tn == r.cells[1]
          fp == r.cells[2]
          fn == r.cells[3]
          tp == r.cells[4]
      IN  [by |-> by, outcome |-> "ok", tn |-> tn, fp |-> fp, fn |-> fn,
           tp |-> tp,
           sensitivity |-> IF tp + fn > 0 THEN TrueDiv(tp, tp + fn) ELSE Zero,
           specificity |-> IF tn + fp > 0 THEN TrueDiv(tn, tn + fp) ELSE Zero,
           precision |-> IF tp + fp > 0 THEN TrueDiv(tp, tp + fp) ELSE Zero,
           accuracy |-> accuracy_of(tp, tn, fp, fn)]

\* utils.py:73-84
calculate_confusion_matrix(y_t, y_p) ==
    confusion_metrics("calculate_confusion_matrix",
                      confusion_matrix_ravel(y_t, y_p))

\* ml_model_evaluation.py:35-69
render_confusion_matrix(y_t, y_p) ==
    confusion_metrics("render", confusion_matrix_ravel(y_t, y_p))

CmUnchanged ==
    UNCHANGED <<campaign_df, kpis, y_true, y_pred, y_prob, roc_result,
                funnel_df, funnel_view, geo_df, growth_analysis,
                dated_df, series,
                product_df, customer_df, hierarchy,
                channel_df, channel_perf,
                files, data, page_view>>

CalculateConfusionMatrix ==
    /\ cm_result' = calculate_confusion_matrix(y_true, y_pred)
    /\ CmUnchanged

\* the page reads both sequences from one table: they have one length
RenderConfusionMatrix ==
    /\ Len(y_true) = Len(y_pred)
    /\ cm_result' = render_confusion_matrix(y_true, y_pred)
    /\ CmUnchanged

(***************************************************************************)
(* ROC curve and AUC (sklearn.metrics.roc_curve, sklearn.metrics.auc).     *)
(* A threshold is [inf, v]: the first one roc_curve returns is np.inf.     *)
(***************************************************************************)
NoRoc ==
    [by |-> "none", outcome |-> "none", fpr |-> <<>>, tpr |-> <<>>,
     thresholds |-> <<>>, auc |-> Zero, optimal_idx |-> 0,
     optimal_threshold |-> [inf |-> FALSE, v |-> 0], quality |-> "none"]

\* the label sets roc_curve accepts without pos_label
BinaryClassSets == {{0, 1}, {-1, 1}, {0}, {-1}, {1}}

\* _binary_clf_curve: one point per distinct score, scores descending; tps and
\* fps count the positives and negatives scored at least the threshold
ClfCurve(y_t, y_s) ==
    LET thr == Descending(Classes(y_s))
    IN  [i \in 1..Len(thr) |->
            [tps |-> Cardinality({j \in DOMAIN y_t :
                                    y_s[j] >= thr[i] /\ y_t[j] = 1}),
             fps |-> Cardinality({j \in DOMAIN y_t :
                                    y_s[j] >= thr[i] /\ y_t[j] # 1}),
             thr |-> [inf |-> FALSE, v |-> thr[i]]]]

RECURSIVE KeepIdx(_, _, _)
KeepIdx(s, K, i) ==
    IF i > Len(s) THEN <<>>
    ELSE (IF i \in K THEN <<s[i]>> ELSE <<>>) \o KeepIdx(s, K, i + 1)

\* drop_intermediate=True: with more than two points, an inner point stays
\* only where the second difference of fps or of tps is not zero
DropIntermediate(c) ==
    IF Len(c) <= 2 THEN c
    ELSE KeepIdx(c,
             {1, Len(c)} \cup
             {i \in 2..(Len(c) - 1) :
                \/ c[i + 1].fps - 2 * c[i].fps + c[i - 1].fps # 0
                \/ c[i + 1].tps - 2 * c[i].tps + c[i - 1].tps # 0},
             1)

RocPoints_mutant(y_t, y_s) == DropIntermediate(ClfCurve(y_t, y_s))

\* the curve with the extra first point (0, 0, inf) roc_curve adds
RocPoints(y_t, y_s) ==
    <<[tps |-> 0, fps |-> 0, thr |-> [inf |-> TRUE, v |-> 0]]>>
        \o DropIntermediate(ClfCurve(y_t, y_s))

\* fps / fps[-1], or all nan (with a warning) when fps[-1] <= 0
Rates(counts) ==
    LET last == counts[Len(counts)]
    IN  [i \in 1..Len(counts) |->
            IF last <= 0 THEN NaN ELSE Num(counts[i], last)]

\* sklearn.metrics.roc_curve(y_true, y_score)
roc_curve(y_t, y_s) ==
    IF Len(y_t) # Len(y_s) \/ Classes(y_t) \notin BinaryClassSets
    THEN [outcome |-> "ValueError", fpr |-> <<>>, tpr |-> <<>>,
          thresholds |-> <<>>]
    ELSE
      LET pts == RocPoints(y_t, y_s)
      IN  [outcome |-> "ok",
           fpr |-> Rates([i \in 1..Len(pts) |-> pts[i].fps]),
           tpr |-> Rates([i \in 1..Len(pts) |-> pts[i].tps]),
           thresholds |-> [i \in 1..Len(pts) |-> pts[i].thr]]

RECURSIVE TrapzNum(_, _, _)
TrapzNum(x, y, i) ==
    IF i >= Len(x) THEN 0
    ELSE (x[i + 1].n - x[i].n) * (y[i + 1].n + y[i].n) + TrapzNum(x, y, i + 1)

\* sklearn.metrics.auc(x, y) for x, y as roc_curve returns them (each with one
\* denominator, x not decreasing): np.trapz(y, x), nan when a rate is nan
auc(x, y) ==
    IF \E i \in DOMAIN x : ~IsNum(x[i]) \/ ~IsNum(y[i]) THEN NaN
    ELSE Num(TrapzNum(x, y, 1), 2 * x[1].d * y[1].d)

\* tpr - fpr as a fraction over the common denominator
YoudenJ(r, i) == r.tpr[i].n * r.fpr[i].d - r.fpr[i].n * r.tpr[i].d

\* np.argmax(tpr - fpr): the first maximum; the first nan when there is one
ArgmaxJ(r) ==
    LET idx == DOMAIN r.fpr
        nans == {i \in idx : ~IsNum(r.fpr[i]) \/ ~IsNum(r.tpr[i])}
    IN  IF nans # {} THEN Min(nans)
        ELSE Min({i \in idx : \A j \in idx : YoudenJ(r, j) <= YoudenJ(r, i)})

\* ml_model_evaluation.py:154: roc_auc > 0.8, > 0.7 (false for nan)
Quality(a) ==
    IF IsNum(a) /\ 10 * a.n > 8 * a.d THEN "Excellent"
    ELSE IF IsNum(a) /\ 10 * a.n > 7 * a.d THEN "Good"
    ELSE "Fair"

\* utils.py:87-97
calculate_roc_curve(y_t, y_s) ==
    LET r == roc_curve(y_t, y_s)
    IN  IF r.outcome # "ok"
        THEN [NoRoc EXCEPT !.by = "calculate_roc_curve",
                           !.outcome = "ValueError"]
        ELSE [NoRoc EXCEPT !.by = "calculate_roc_curve", !.outcome = "ok",
                           !.fpr = r.fpr, !.tpr = r.tpr,
                           !.thresholds = r.thresholds,
                           !.auc = auc(r.fpr, r.tpr)]

\* ml_model_evaluation.py:97-155
render_roc_curve(y_t, y_s) ==
    LET r == roc_curve(y_t, y_s)
    IN  IF r.outcome # "ok"
        THEN [NoRoc EXCEPT !.by = "render", !.outcome = "ValueError"]
        ELSE [by |-> "render", outcome |-> "ok",
              fpr |-> r.fpr, tpr |-> r.tpr, thresholds |-> r.thresholds,
              auc |-> auc(r.fpr, r.tpr),
              optimal_idx |-> ArgmaxJ(r),
              optimal_threshold |-> r.thresholds[ArgmaxJ(r)],
              quality |-> Quality(auc(r.fpr, r.tpr))]

RocUnchanged ==
    UNCHANGED <<campaign_df, kpis, y_true, y_pred, y_prob, cm_result,
                funnel_df, funnel_view, geo_df, growth_analysis,
                dated_df, series,
                product_df, customer_df, hierarchy,
                channel_df, channel_perf,
                files, data, page_view>>

CalculateRocCurve ==
    /\ roc_result' = calculate_roc_curve(y_true, y_prob)
    /\ RocUnchanged

\* the page reads both sequences from one table: they have one length
RenderRocCurve ==
    /\ Len(y_true) = Len(y_prob)
    /\ roc_result' = render_roc_curve(y_true, y_prob)
    /\ RocUnchanged

(***************************************************************************)
(* Tables of rows.  has_columns is FALSE for the table pd.DataFrame() the  *)
(* loader yields for a missing file (no row, no column).                   *)
(***************************************************************************)
NoTable == [has_columns |-> FALSE, rows |-> <<>>]

Tables(Rows, n) ==
    {NoTable} \cup [has_columns : {TRUE}, rows : SeqUpTo(Rows, n)]

\* the orders of the rows with indices in S in which the keys never decrease
RECURSIVE SortsFrom(_, _, _)
SortsFrom(rows, key, S) ==
    IF S = {} THEN {<<>>}
    ELSE UNION { {<<rows[i]>> \o t : t \in SortsFrom(rows, key, S \ {i})} :
                 i \in {k \in S : \A j \in S : key[k] <= key[j]} }

\* the row orders DataFrame.sort_values may produce, key[i] the sort key of
\* rows[i]: the sort is numpy's quicksort, which promises no order among
\* equal keys
Sorts(rows, key) == SortsFrom(rows, key, DOMAIN rows)

(***************************************************************************)
(* Text the pages format numbers into, as sequences of characters.         *)
(***************************************************************************)
DigitChars == <<"0", "1", "2", "3", "4", "5", "6", "7", "8", "9">>
Digit(d) == DigitChars[d + 1]

RECURSIVE Digits(_)
Digits(n) == IF n < 10 THEN <<Digit(n)>>
             ELSE Digits(n \div 10) \o <<Digit(n % 10)>>

RECURSIVE Grouped(_)
Grouped(n) ==
    IF n < 1000 THEN Digits(n)
    ELSE Grouped(n \div 1000) \o
         <<",", Digit((n % 1000) \div 100), Digit((n \div 10) % 10),
           Digit(n % 10)>>

\* f"{n:,}"
FormatThousands(n) == IF n < 0 THEN <<"-">> \o Grouped(-n) ELSE Grouped(n)

\* a / b rounded to the nearest integer, halves to even (a >= 0, b > 0)
RoundHalfEven(a, b) ==
    LET q == a \div b
        r == a % b
    IN  IF 2 * r > b \/ (2 * r = b /\ q % 2 = 1) THEN q + 1 ELSE q

\* f"{x:.1f}%" of x = a / b * 100, x >= 0
FormatPercent1(a, b) ==
    LET tenths == RoundHalfEven(a * 1000, b)
    IN  Digits(tenths \div 10) \o <<".", Digit(tenths % 10), "%">>

(***************************************************************************)
(* Funnel.                                                                 *)
(***************************************************************************)
stage_order ==
    <<"Awareness", "Interest", "Consideration", "Evaluation", "Purchase">>
\* the stage names of the input rows: three of the stages and a name that is
\* not a stage
StageNames == {"Awareness", "Interest", "Purchase", "Other"}
VisitorValues == {0, 800, 1200}
FunnelRows == [stage : StageNames, visitors : VisitorValues]

NoFunnelView ==
    [by |-> "none", outcome |-> "none", shown |-> <<>>, metrics |-> <<>>]

IsStage(s) == \E i \in DOMAIN stage_order : stage_order[i] = s

\* the code of a stage in pd.Categorical(..., categories=stage_order,
\* ordered=True); a name outside the categories becomes NaN and sorts last
StageCode(s) ==
    IF IsStage(s) THEN CHOOSE i \in DOMAIN stage_order : stage_order[i] = s
    ELSE Len(stage_order) + 1

\* attribution_funnel.py:34: the stage column as a categorical
AsCategorical(rows) ==
    [i \in 1..Len(rows) |->
        [stage |-> IF IsStage(rows[i].stage) THEN rows[i].stage ELSE "nan",
         visitors |-> rows[i].visitors]]

StageKeys(rows) == [i \in DOMAIN rows |-> StageCode(rows[i].stage)]
VisitorKeys(rows) == [i \in DOMAIN rows |-> rows[i].visitors]

drop_off_mutant(current_stage, next_stage) ==
    next_stage.visitors - current_stage.visitors

\* attribution_funnel.py:64
drop_off_of(current_stage, next_stage) ==
    current_stage.visitors - next_stage.visitors

conversion_rate_text_mutant(current_stage, next_stage) ==
    IF next_stage.visitors > 0
    THEN FormatPercent1(current_stage.visitors, next_stage.visitors)
    ELSE FormatPercent1(0, 1)

\* attribution_funnel.py:63,68
conversion_rate_text(current_stage, next_stage) ==
    IF current_stage.visitors > 0
    THEN FormatPercent1(next_stage.visitors, current_stage.visitors)
    ELSE FormatPercent1(0, 1)

transition_count_mutant(sorted) == IF Len(sorted) >= 2 THEN Len(sorted) - 2 ELSE 0

\* attribution_funnel.py:59: range(len(funnel_df) - 1)
transition_count(sorted) == IF Len(sorted) >= 1 THEN Len(sorted) - 1 ELSE 0

\* attribution_funnel.py:58-73
funnel_metrics_of(sorted) ==
    [i \in 1..transition_count(sorted) |->
        [transition |-> <<sorted[i].stage, sorted[i + 1].stage>>,
         conversion_rate |-> conversion_rate_text(sorted[i], sorted[i + 1]),
         drop_off |-> FormatThousands(drop_off_of(sorted[i], sorted[i + 1])),
         remaining |-> FormatThousands(sorted[i + 1].visitors)]]

\* attribution_funnel.py:33-35
stage_sorts(rows) == Sorts(rows, StageKeys(rows))

FunnelUnchanged ==
    UNCHANGED <<campaign_df, kpis, y_true, y_pred, y_prob, cm_result,
                roc_result, funnel_df, geo_df, growth_analysis,
                dated_df, series,
                product_df, customer_df, hierarchy,
                channel_df, channel_perf,
                files, data, page_view>>

\* pages/attribution_funnel.py:19-74, the funnel tab of render
RenderFunnelPage ==
    /\ IF ~funnel_df.has_columns
       THEN funnel_view' = [NoFunnelView EXCEPT !.by = "render",
                                                !.outcome = "KeyError"]
       ELSE \E sorted \in stage_sorts(funnel_df.rows) :
               funnel_view' = [by |-> "render", outcome |-> "ok",
                               shown |-> AsCategorical(sorted),
                               metrics |->
                                   funnel_metrics_of(AsCategorical(sorted))]
    /\ FunnelUnchanged

\* app.py:349-366, the funnel tab of render_attribution_funnel
RenderFunnelApp ==
    /\ IF funnel_df.rows # <<>> /\ funnel_df.has_columns
       THEN \E funnel_sorted \in Sorts(funnel_df.rows, VisitorKeys(funnel_df.rows)) :
               funnel_view' = [by |-> "render_attribution_funnel",
                               outcome |-> "ok", shown |-> funnel_sorted,
                               metrics |-> <<>>]
       ELSE funnel_view' = [NoFunnelView EXCEPT
                               !.by = "render_attribution_funnel",
                               !.outcome = "not_available"]
    /\ FunnelUnchanged

(***************************************************************************)
(* Geographic opportunity score.  Rows carry their index label (state).    *)
(***************************************************************************)
PenetrationValues == {0, 50, 100, 120}
SatisfactionValues == {0, 10}
CustomerValues == {0, 100, 200}

GeoData ==
    [customers : CustomerValues, market_penetration : PenetrationValues,
     satisfaction : SatisfactionValues]

GeoTables ==
    {NoTable} \cup
    UNION { {[has_columns |-> TRUE,
              rows |-> [i \in 1..n |->
                          [state |-> i, customers |-> f[i].customers,
                           market_penetration |-> f[i].market_penetration,
                           satisfaction |-> f[i].satisfaction]]] :
                f \in [1..n -> GeoData]} :
            n \in 0..MaxStates }

NoGrowth == [outcome |-> "none", rows |-> <<>>]

\* Series.max(): the largest value (nan for no value, never divided by here)
MaxCustomers(rows) == Max({rows[i].customers : i \in DOMAIN rows})

opportunity_score_mutant(row, max_customers) ==
    IF max_customers = 0 THEN NaN
    ELSE Num(4 * row.market_penetration * max_customers
             + 4 * row.satisfaction * max_customers
             + 2 * row.customers * 100,
             10 * max_customers)

\* geographic_analysis.py:125-129:
\* (100 - p) * 0.4 + s * 0.4 + (c / max * 100) * 0.2, over the denominator
\* 10 * max; c / max is nan when both are 0
opportunity_score(row, max_customers) ==
    IF max_customers = 0 THEN NaN
    ELSE Num(4 * (100 - row.market_penetration) * max_customers
             + 4 * row.satisfaction * max_customers
             + 2 * row.customers * 100,
             10 * max_customers)

\* the sort key of a scored row: the scores share one denominator; they are
\* all nan or all numbers, and nan rows keep their order
ScoreKeys(rows) ==
    [i \in DOMAIN rows |->
        IF IsNum(rows[i].opportunity_score) THEN rows[i].opportunity_score.n
        ELSE rows[i].state]

\* geographic_analysis.py:120-129
scored(rows) ==
    [i \in 1..Len(rows) |->
        [state |-> rows[i].state,
         opportunity_score |-> opportunity_score(rows[i], MaxCustomers(rows))]]

GeoUnchanged ==
    UNCHANGED <<campaign_df, kpis, y_true, y_pred, y_prob, cm_result,
                roc_result, funnel_df, funnel_view, geo_df,
                dated_df, series,
                product_df, customer_df, hierarchy,
                channel_df, channel_perf,
                files, data, page_view>>

\* pages/geographic_analysis.py:119-131, the opportunity scores of render
ScoreOpportunity ==
    /\ IF ~geo_df.has_columns
       THEN growth_analysis' = [outcome |-> "KeyError", rows |-> <<>>]
       ELSE \E sorted \in Sorts(scored(geo_df.rows),
                                 ScoreKeys(scored(geo_df.rows))) :
               growth_analysis' = [outcome |-> "ok", rows |-> sorted]
    /\ GeoUnchanged

(***************************************************************************)
(* Revenue time series.  A date cell of the input is a text "2024-mm-dd"   *)
(* or a text that is no date; pd.to_datetime turns it into a Timestamp,    *)
(* kept as the number of days since 2024-01-01 (a Monday), or into NaT.    *)
(* A Period is kept by its frequency and the day number of its start.      *)
(***************************************************************************)
\* Sunday 7 Jan, Wednesday 31 Jan and Thursday 1 Feb
DateTexts == {<<1, 7>>, <<1, 31>>, <<2, 1>>}
TrendRevenues == {50, 100}
Aggregations == {"Daily", "Weekly", "Monthly"}

Text(m, d) == [kind |-> "text", m |-> m, d |-> d, day |-> 0]
BadText == [kind |-> "bad", m |-> 0, d |-> 0, day |-> 0]
Timestamp(day) == [kind |-> "Timestamp", m |-> 0, d |-> 0, day |-> day]
NaT == [kind |-> "NaT", m |-> 0, d |-> 0, day |-> 0]
Period(freq, day) == [kind |-> freq, m |-> 0, d |-> 0, day |-> day]

DatedRows ==
    [date : {Text(t[1], t[2]) : t \in DateTexts}, revenue : TrendRevenues]
        \cup {[date |-> BadText, revenue |-> 50]}

NoSeries == [by |-> "none", agg |-> "none", outcome |-> "none", rows |-> <<>>]

\* the lengths of the months of 2024
DaysInMonth == <<31, 29, 31, 30, 31, 30, 31, 31, 30, 31, 30, 31>>

RECURSIVE DaysBefore(_)
DaysBefore(m) == IF m = 1 THEN 0 ELSE DaysInMonth[m - 1] + DaysBefore(m - 1)

RECURSIVE MonthFrom(_, _)
MonthFrom(day, m) ==
    IF m = 12 \/ day < DaysBefore(m) + DaysInMonth[m] THEN m
    ELSE MonthFrom(day, m + 1)

\* Timestamp.month
MonthOf(day) == MonthFrom(day, 1)

\* Timestamp.dayofweek: Monday is 0
DayOfWeek(day) == day % 7

ParseDate_mutant(c) ==
    IF c.kind = "text" THEN Timestamp(DaysBefore(c.m) + c.d - 1)
    ELSE NaT

\* the Timestamp of one cell: a Timestamp or NaT stays what it is
ParseDate(c) ==
    IF c.kind = "text" THEN Timestamp(DaysBefore(c.m) + c.d - 1)
    ELSE IF c.kind = "bad" THEN NaT
    ELSE c

Unparsable(rows) == \E i \in DOMAIN rows : rows[i].date.kind = "bad"

\* df['date'] = pd.to_datetime(df['date']) or, with coercion,
\* pd.to_datetime(df['date'], errors='coerce')
WithParsedDates(rows) ==
    [i \in DOMAIN rows |-> [rows[i] EXCEPT !.date = ParseDate(rows[i].date)]]

to_period_W_mutant(ts) ==
    IF ts.kind = "NaT" THEN NaT
    ELSE Period("W-SUN", ts.day - ((ts.day + 1) % 7))

\* Series.dt.to_period('W'): the week ending on Sunday that holds the day
to_period_W(ts) ==
    IF ts.kind = "NaT" THEN NaT
    ELSE Period("W-SUN", ts.day - DayOfWeek(ts.day))

\* Series.dt.to_period('M')
to_period_M(ts) ==
    IF ts.kind = "NaT" THEN NaT
    ELSE Period("M", DaysBefore(MonthOf(ts.day)))

\* Series.dt.start_time
start_time(p) == IF p.kind = "NaT" THEN NaT ELSE Timestamp(p.day)

RECURSIVE SumWhere(_, _, _, _)
SumWhere(keys, values, k, i) ==
    IF i > Len(keys) THEN 0
    ELSE (IF keys[i] = k THEN values[i] ELSE 0) + SumWhere(keys, values, k, i + 1)

GroupKeys(keys) == {keys[i] : i \in DOMAIN keys} \ {NaT}

groupby_sum_mutant(keys, values) ==
    LET days == Descending({k.day : k \in GroupKeys(keys)})
    IN  [n \in 1..Len(days) |->
            LET k == CHOOSE g \in GroupKeys(keys) : g.day = days[n]
            IN  [date |-> k, revenue |-> SumWhere(keys, values, k, 1)]]

\* df.groupby(keys)['revenue'].sum().reset_index(): one row per key that
\* occurs, keys ascending (sort=True), NaT keys left out (dropna=True)
groupby_sum(keys, values) ==
    LET days == Ascending({k.day : k \in GroupKeys(keys)})
    IN  [n \in 1..Len(days) |->
            LET k == CHOOSE g \in GroupKeys(keys) : g.day = days[n]
            IN  [date |-> k, revenue |-> SumWhere(keys, values, k, 1)]]

DateColumn(rows) == [i \in DOMAIN rows |-> rows[i].date]
RevenueColumn(rows) == [i \in DOMAIN rows |-> rows[i].revenue]

\* executive_overview.py:68,80-85 and campaign_analytics.py:48-55: the sums
\* per date, then for Weekly and Monthly the dates replaced by the start of
\* their period and summed again
rebucketed(rows, agg) ==
    LET daily_revenue == groupby_sum(DateColumn(rows), RevenueColumn(rows))
    IN  IF agg = "Weekly"
        THEN groupby_sum([i \in DOMAIN daily_revenue |->
                             start_time(to_period_W(daily_revenue[i].date))],
                         RevenueColumn(daily_revenue))
        ELSE IF agg = "Monthly"
        THEN groupby_sum([i \in DOMAIN daily_revenue |->
                             start_time(to_period_M(daily_revenue[i].date))],
                         RevenueColumn(daily_revenue))
        ELSE daily_revenue

\* executive_overview.py:67-85, campaign_analytics.py:23,48-55: the page works
\* on a copy; df['date'] of a table without columns raises KeyError,
\* pd.to_datetime of a text that is no date raises ValueError
page_revenue_series(df, agg, by) ==
    IF ~df.has_columns
    THEN [NoSeries EXCEPT !.by = by, !.agg = agg, !.outcome = "KeyError"]
    ELSE IF Unparsable(df.rows)
    THEN [NoSeries EXCEPT !.by = by, !.agg = agg, !.outcome = "ValueError"]
    ELSE [by |-> by, agg |-> agg, outcome |-> "ok",
          rows |-> rebucketed(WithParsedDates(df.rows), agg)]

helper_revenue_series_mutant(rows, agg) ==
    groupby_sum(DateColumn(rows), RevenueColumn(rows))

\* utils.py:29-44: the helpers group the rows themselves by date, or by the
\* week or month period of the date
helper_revenue_series(rows, agg) ==
    IF agg = "Weekly"
    THEN groupby_sum([i \in DOMAIN rows |-> to_period_W(rows[i].date)],
                     RevenueColumn(rows))
    ELSE IF agg = "Monthly"
    THEN groupby_sum([i \in DOMAIN rows |-> to_period_M(rows[i].date)],
                     RevenueColumn(rows))
    ELSE groupby_sum(DateColumn(rows), RevenueColumn(rows))

\* app.py:64-66,97-100 and app.py:138-149: nothing for an empty table; the
\* dates are coerced, rows without a date or a sum are dropped
app_daily_revenue(df, by) ==
    IF df.rows = <<>> \/ ~df.has_columns
    THEN [NoSeries EXCEPT !.by = by, !.agg = "Daily",
                          !.outcome = "not_available"]
    ELSE [by |-> by, agg |-> "Daily", outcome |-> "ok",
          rows |-> groupby_sum(DateColumn(WithParsedDates(df.rows)),
                               RevenueColumn(df.rows))]

SeriesUnchanged ==
    UNCHANGED <<campaign_df, kpis, y_true, y_pred, y_prob, cm_result,
                roc_result, funnel_df, funnel_view, geo_df, growth_analysis,
                product_df, customer_df, hierarchy,
                channel_df, channel_perf,
                files, data, page_view>>

\* pages/executive_overview.py:67-85, the revenue trend of render
RenderOverviewTrend ==
    /\ \E aggregation \in Aggregations :
          series' = page_revenue_series(dated_df, aggregation,
                                        "executive_overview")
    /\ UNCHANGED dated_df
    /\ SeriesUnchanged

\* pages/campaign_analytics.py:22-55, the revenue trend of render
RenderCampaignTrend ==
    /\ \E agg \in Aggregations :
          series' = page_revenue_series(dated_df, agg, "campaign_analytics")
    /\ UNCHANGED dated_df
    /\ SeriesUnchanged

\* utils.py:29-44, aggregate_daily_revenue, aggregate_weekly_revenue and
\* aggregate_monthly_revenue: each first assigns the parsed dates to the date
\* column of the table it was given
AggregateRevenue(agg, by) ==
    /\ IF ~dated_df.has_columns
       THEN /\ series' = [NoSeries EXCEPT !.by = by, !.agg = agg,
                                          !.outcome = "KeyError"]
            /\ UNCHANGED dated_df
       ELSE IF Unparsable(dated_df.rows)
       THEN /\ series' = [NoSeries EXCEPT !.by = by, !.agg = agg,
                                          !.outcome = "ValueError"]
            /\ UNCHANGED dated_df
       ELSE /\ dated_df' = [dated_df EXCEPT
                               !.rows = WithParsedDates(dated_df.rows)]
            /\ series' = [by |-> by, agg |-> agg, outcome |-> "ok",
                          rows |-> helper_revenue_series(
                                       WithParsedDates(dated_df.rows), agg)]
    /\ SeriesUnchanged

AggregateDailyRevenue == AggregateRevenue("Daily", "aggregate_daily_revenue")
AggregateWeeklyRevenue == AggregateRevenue("Weekly", "aggregate_weekly_revenue")
AggregateMonthlyRevenue ==
    AggregateRevenue("Monthly", "aggregate_monthly_revenue")

\* utils.py:29-32, aggregate_daily_revenue given the table that a Daily
\* aggregation returned
AggregateDailyRevenueAgain ==
    /\ series.outcome = "ok" /\ series.agg = "Daily"
    /\ series' = [by |-> "aggregate_daily_revenue of a daily series",
                  agg |-> "Daily", outcome |-> "ok",
                  rows |-> helper_revenue_series(
                               WithParsedDates(series.rows), "Daily")]
    /\ UNCHANGED dated_df
    /\ SeriesUnchanged

\* app.py:59-100, the revenue trend of render_executive_overview
RenderAppOverviewTrend ==
    /\ series' = app_daily_revenue(dated_df, "render_executive_overview")
    /\ UNCHANGED dated_df
    /\ SeriesUnchanged

\* app.py:133-149, the revenue trend of render_campaign_analytics
RenderAppCampaignTrend ==
    /\ series' = app_daily_revenue(dated_df, "render_campaign_analytics")
    /\ UNCHANGED dated_df
    /\ SeriesUnchanged

(***************************************************************************)
(* Hierarchy tables of the treemap and the sunburst.  A label is a         *)
(* sequence of the texts it is put together from; '' is the empty          *)
(* sequence.  The tables keep the label, parent and value columns.         *)
(***************************************************************************)
Categories == {"Electronics", "Fashion"}
Subcategories == {"Accessories", "Phones"}
SalesValues == {100, 200}
Regions == {"North", "South"}
Segments == {"Premium", "Regular"}

ProductRows ==
    [category : Categories, subcategory : Subcategories, sales : SalesValues]
CustomerRows == [region : Regions, segment : Segments]

NoHierarchy == [by |-> "none", outcome |-> "none", rows |-> <<>>]

\* Series.unique(): the values in the order of their first appearance
RECURSIVE Unique(_, _)
Unique(col, seen) ==
    IF col = <<>> THEN <<>>
    ELSE IF Head(col) \in seen THEN Unique(Tail(col), seen)
    ELSE <<Head(col)>> \o Unique(Tail(col), seen \cup {Head(col)})

\* df[df[column] == value]
Where(rows, column, value) == SelectSeq(rows, LAMBDA r : r[column] = value)

RECURSIVE SumSales(_)
SumSales(rows) == IF rows = <<>> THEN 0 ELSE Head(rows).sales + SumSales(Tail(rows))

RECURSIVE Flatten(_)
Flatten(ss) == IF ss = <<>> THEN <<>> ELSE Head(ss) \o Flatten(Tail(ss))

Node(label, parent, value) ==
    [label |-> label, parent |-> parent, value |-> value]

\* utils.py:117: f"{segment} ({region})"
segment_label(segment, region) == <<segment, " (", region, ")">>

\* utils.py:100-122
prepare_sunburst_data(df) ==
    LET regions == Unique([i \in DOMAIN df |-> df[i].region], {})
        of_region(region) ==
            LET region_df == Where(df, "region", region)
                segments ==
                    Unique([i \in DOMAIN region_df |-> region_df[i].segment], {})
            IN  <<Node(<<region>>, <<"All Customers">>, Len(region_df))>>
                \o [k \in DOMAIN segments |->
                      Node(segment_label(segments[k], region), <<region>>,
                           Len(Where(region_df, "segment", segments[k])))]
    IN  <<Node(<<"All Customers">>, <<>>, Len(df))>>
        \o Flatten([k \in DOMAIN regions |-> of_region(regions[k])])

\* utils.py:125-157 and product_performance.py:29-60: the same table but for
\* the margin column
prepare_treemap_data(df) ==
    LET categories == Unique([i \in DOMAIN df |-> df[i].category], {})
        of_category(category) ==
            LET cat_df == Where(df, "category", category)
                subcats ==
                    Unique([i \in DOMAIN cat_df |-> cat_df[i].subcategory], {})
            IN  <<Node(<<category>>, <<"All Products">>, SumSales(cat_df))>>
                \o [k \in DOMAIN subcats |->
                      Node(<<subcats[k]>>, <<category>>,
                           SumSales(Where(cat_df, "subcategory", subcats[k])))]
    IN  <<Node(<<"All Products">>, <<>>, SumSales(df))>>
        \o Flatten([k \in DOMAIN categories |-> of_category(categories[k])])

HierarchyUnchanged ==
    UNCHANGED <<campaign_df, kpis, y_true, y_pred, y_prob, cm_result,
                roc_result, funnel_df, funnel_view, geo_df, growth_analysis,
                dated_df, series, product_df, customer_df,
                channel_df, channel_perf,
                files, data, page_view>>

\* df['region'] of a table without columns raises KeyError
PrepareSunburstData ==
    /\ hierarchy' =
          IF ~customer_df.has_columns
          THEN [NoHierarchy EXCEPT !.by = "prepare_sunburst_data",
                                   !.outcome = "KeyError"]
          ELSE [by |-> "prepare_sunburst_data", outcome |-> "ok",
                rows |-> prepare_sunburst_data(customer_df.rows)]
    /\ HierarchyUnchanged

PrepareTreemapData ==
    /\ hierarchy' =
          IF ~product_df.has_columns
          THEN [NoHierarchy EXCEPT !.by = "prepare_treemap_data",
                                   !.outcome = "KeyError"]
          ELSE [by |-> "prepare_treemap_data", outcome |-> "ok",
                rows |-> prepare_treemap_data(product_df.rows)]
    /\ HierarchyUnchanged

\* pages/product_performance.py:18-60, the treemap of render
RenderTreemap ==
    /\ hierarchy' =
          IF ~product_df.has_columns
          THEN [NoHierarchy EXCEPT !.by = "render", !.outcome = "KeyError"]
          ELSE [by |-> "render", outcome |-> "ok",
                rows |-> prepare_treemap_data(product_df.rows)]
    /\ HierarchyUnchanged

(***************************************************************************)
(* Per-channel ranking (revenue, ROAS).                                    *)
(***************************************************************************)
Channels == {"Email", "Social"}
ChannelRevenues == {0, 100}
ChannelSpends == {0, 50}
ChannelRows ==
    [channel : Channels, revenue : ChannelRevenues, spend : ChannelSpends]

NoChannelPerf ==
    [by |-> "none", metric |-> "none", outcome |-> "none", rows |-> <<>>]

RECURSIVE SumField(_, _)
SumField(rows, f) ==
    IF rows = <<>> THEN 0 ELSE Head(rows)[f] + SumField(Tail(rows), f)

\* the channel names in ascending order
ChannelOrder == <<"Email", "Social">>

\* the group keys of df.groupby('channel'): the channels that occur, ascending
GroupedChannels(rows) ==
    SelectSeq(ChannelOrder,
              LAMBDA c : \E i \in DOMAIN rows : rows[i].channel = c)

\* utils.py:17, executive_overview.py:110-111: the division of the two
\* grouped sums, element by element, with no guard
channel_roas(revenue, spend) == TrueDiv(revenue, spend)

\* df.groupby('channel')[...].sum() and, for ROAS, the quotient of two
\* such sums: one row per channel, channels ascending
channel_values(rows, metric) ==
    LET cs == GroupedChannels(rows)
    IN  [k \in DOMAIN cs |->
            LET g == SelectSeq(rows, LAMBDA r : r.channel = cs[k])
            IN  [channel |-> cs[k],
                 value |-> IF metric = "roas"
                           THEN channel_roas(SumField(g, "revenue"),
                                             SumField(g, "spend"))
                           ELSE Num(SumField(g, "revenue"), 1)]]

RECURSIVE ProductOfDenominators(_)
ProductOfDenominators(vs) ==
    IF vs = <<>> THEN 1
    ELSE (IF IsNum(Head(vs).value) THEN Head(vs).value.d ELSE 1)
         * ProductOfDenominators(Tail(vs))

\* the sort keys of Series.sort_values: the values over one denominator, inf
\* above every number, nan last whatever the direction
RankKeys(vs, ascending) ==
    LET D == ProductOfDenominators(vs)
        top == 1000000
    IN  [k \in DOMAIN vs |->
            IF vs[k].value.kind = "nan" THEN top + 1
            ELSE LET v == IF vs[k].value.kind = "inf" THEN top
                          ELSE (vs[k].value.n * D) \div vs[k].value.d
                 IN  IF ascending THEN v ELSE 0 - v]

ChannelUnchanged ==
    UNCHANGED <<campaign_df, kpis, y_true, y_pred, y_prob, cm_result,
                roc_result, funnel_df, funnel_view, geo_df, growth_analysis,
                dated_df, series, product_df, customer_df, hierarchy,
                channel_df,
                files, data, page_view>>

\* utils.py:10-18, aggregate_by_channel(df, metric): sorted descending
AggregateByChannel ==
    /\ \E metric \in {"revenue", "roas"} :
          IF ~channel_df.has_columns
          THEN channel_perf' = [NoChannelPerf EXCEPT
                                   !.by = "aggregate_by_channel",
                                   !.metric = metric, !.outcome = "KeyError"]
          ELSE \E sorted \in Sorts(channel_values(channel_df.rows, metric),
                                   RankKeys(channel_values(channel_df.rows,
                                                           metric), FALSE)) :
                  channel_perf' = [by |-> "aggregate_by_channel",
                                   metric |-> metric, outcome |-> "ok",
                                   rows |-> sorted]
    /\ ChannelUnchanged

\* pages/executive_overview.py:93-123, the channel chart of render: the
\* ranking is sorted ascending and handed to px.barh, which plotly.express
\* does not have (AttributeError); rows is the ranking computed before that
RenderChannelChart ==
    /\ \E metric_select \in {"revenue", "roas"} :
          IF ~channel_df.has_columns
          THEN channel_perf' = [NoChannelPerf EXCEPT
                                   !.by = "render", !.metric = metric_select,
                                   !.outcome = "KeyError"]
          ELSE \E sorted \in Sorts(channel_values(channel_df.rows,
                                                  metric_select),
                                   RankKeys(channel_values(channel_df.rows,
                                                           metric_select),
                                            TRUE)) :
                  channel_perf' = [by |-> "render", metric |-> metric_select,
                                   outcome |-> "AttributeError",
                                   rows |-> sorted]
    /\ ChannelUnchanged

(***************************************************************************)
(* The loader and the page renders.  A frame keeps where it came from,     *)
(* whether it is empty, and the columns assigned to it since it was        *)
(* loaded.  A render is the sequence of its steps that read a dataset,     *)
(* end the render, can raise, or assign a column of a frame in place.      *)
(***************************************************************************)
csv_files ==
    <<"campaign_performance", "customer_data", "product_sales",
      "lead_scoring_results", "feature_importance", "learning_curve",
      "geographic_data", "channel_attribution", "funnel_data",
      "customer_journey", "correlation_matrix">>

DatasetNames == {csv_files[i] : i \in DOMAIN csv_files}

NotLoaded == <<>>
NoView == [by |-> "none", outcome |-> "none"]

\* pd.DataFrame()
EmptyFrame == [source |-> "none", empty |-> TRUE, assigned |-> {}]

\* pd.read_csv(data_dir / f'{file}.csv') of a file that is there
CsvFrame(file) == [source |-> file, empty |-> FALSE, assigned |-> {}]

RECURSIVE load_all_data_mutant(_, _, _)
load_all_data_mutant(found, datasets, i) ==
    IF i > Len(csv_files) THEN datasets
    ELSE LET file == csv_files[i]
             missing == \E k \in 1..i : csv_files[k] \notin found
         IN  load_all_data_mutant(
                 found,
                 [n \in DOMAIN datasets \cup {file} |->
                     IF n # file THEN datasets[n]
                     ELSE IF missing THEN EmptyFrame ELSE CsvFrame(file)],
                 i + 1)

\* app.py:37-56: for each name in turn the file is read, and when that
\* raises FileNotFoundError the name gets an empty frame
RECURSIVE load_all_data(_, _, _)
load_all_data(found, datasets, i) ==
    IF i > Len(csv_files) THEN datasets
    ELSE LET file == csv_files[i]
             missing == file \notin found
         IN  load_all_data(
                 found,
                 [n \in DOMAIN datasets \cup {file} |->
                     IF n # file THEN datasets[n]
                     ELSE IF missing THEN EmptyFrame ELSE CsvFrame(file)],
                 i + 1)

\* the steps of a render
Read(d, copy) == [op |-> "read", dataset |-> d, copy |-> copy]
ReturnIfEmpty(d) == [op |-> "return_if_empty", dataset |-> d]
Getitem(d, error) == [op |-> "getitem", dataset |-> d, error |-> error]
Setitem(d, c) == [op |-> "setitem", dataset |-> d, column |-> c]
Barh == [op |-> "px.barh"]
IfNotEmpty(d, steps) == [op |-> "if_not_empty", dataset |-> d, then |-> steps]

takes_copy_mutant(step) ==
    FALSE

\* data[name].copy() against data[name]
takes_copy(step) ==
    step.copy

\* pages/executive_overview.py:12-150
executive_overview_render ==
    << Read("campaign_performance", TRUE),         \* line 19
       Read("customer_data", TRUE),                \* line 20
       Getitem("campaign_performance", "KeyError"), \* line 23, calculate_kpis
       Setitem("campaign_performance", "date"),    \* line 67
       Barh >>                                     \* line 116

\* pages/campaign_analytics.py:16-176
campaign_analytics_render ==
    << Read("campaign_performance", TRUE),         \* line 22
       Getitem("campaign_performance", "KeyError"), \* line 23, df['date']
       Setitem("campaign_performance", "date") >>  \* line 23

\* pages/customer_insights.py:15-172
customer_insights_render ==
    << Read("customer_data", TRUE),                \* line 21
       Getitem("customer_data", "KeyError") >>     \* line 41

\* pages/product_performance.py:12-194
product_performance_render ==
    << Read("product_sales", TRUE),                \* line 18
       Getitem("product_sales", "KeyError"),       \* line 36
       Barh >>                                     \* line 113

\* pages/geographic_analysis.py:12-160
geographic_analysis_render ==
    << Read("geographic_data", TRUE),              \* line 18
       Getitem("geographic_data", "KeyError"),     \* line 53, sort_values
       Barh >>                                     \* line 55

\* pages/attribution_funnel.py:13-170
attribution_funnel_render ==
    << Read("funnel_data", TRUE),                  \* line 19
       Read("channel_attribution", FALSE),         \* line 20
       Read("correlation_matrix", TRUE),           \* line 21
       Getitem("funnel_data", "KeyError"),         \* line 34, df['stage']
       Setitem("funnel_data", "stage"),            \* line 34
       Getitem("channel_attribution", "KeyError"), \* line 99
       Getitem("correlation_matrix", "IndexError") >> \* line 141, columns[0]

\* pages/ml_model_evaluation.py:14-306
ml_model_evaluation_render ==
    << Read("lead_scoring_results", TRUE),         \* line 20
       Read("feature_importance", TRUE),           \* line 21
       Read("learning_curve", TRUE),               \* line 22
       Getitem("lead_scoring_results", "KeyError"), \* line 36
       Getitem("learning_curve", "KeyError"),      \* line 182
       Getitem("feature_importance", "KeyError") >> \* line 255, sort_values

\* app.py:59-130
render_executive_overview ==
    << Read("campaign_performance", TRUE),         \* line 64
       Read("customer_data", TRUE),                \* line 65
       ReturnIfEmpty("campaign_performance"),      \* lines 67-69
       Setitem("campaign_performance", "date"),    \* line 99
       Barh >>                                     \* line 121

\* app.py:133-189
render_campaign_analytics ==
    << Read("campaign_performance", TRUE),         \* line 138
       ReturnIfEmpty("campaign_performance"),      \* lines 139-141
       Setitem("campaign_performance", "date") >>  \* line 148

\* app.py:192-248
render_customer_insights ==
    << Read("customer_data", TRUE),                \* line 197
       ReturnIfEmpty("customer_data") >>           \* lines 198-200

\* app.py:251-293
render_product_performance ==
    << Read("product_sales", TRUE),                \* line 256
       ReturnIfEmpty("product_sales") >>           \* lines 257-259

\* app.py:296-337
render_geographic_analysis ==
    << Read("geographic_data", TRUE),              \* line 301
       ReturnIfEmpty("geographic_data"),           \* lines 302-304
       Barh >>                                     \* line 324

\* app.py:340-374
render_attribution_funnel ==
    << Read("funnel_data", FALSE),                 \* line 349
       IfNotEmpty("funnel_data", <<>>),            \* lines 350-366
       Read("channel_attribution", FALSE),         \* line 370
       IfNotEmpty("channel_attribution", <<>>) >>  \* lines 371-374

\* app.py:377-445
render_ml_evaluation ==
    << Read("lead_scoring_results", FALSE),        \* line 386
       IfNotEmpty("lead_scoring_results", <<>>),   \* lines 387-404
       Read("feature_importance", FALSE),          \* line 409
       IfNotEmpty("feature_importance", <<Barh>>), \* lines 410-425
       Read("learning_curve", FALSE),              \* line 429
       IfNotEmpty("learning_curve", <<>>) >>       \* lines 430-445

\* app.py:457-465, the pages dict of main
pages ==
    [ExecutiveOverview |-> render_executive_overview,
     CampaignAnalytics |-> render_campaign_analytics,
     CustomerInsights |-> render_customer_insights,
     ProductPerformance |-> render_product_performance,
     GeographicAnalysis |-> render_geographic_analysis,
     AttributionFunnel |-> render_attribution_funnel,
     MlModelEvaluation |-> render_ml_evaluation]

\* pages/__init__.py:5-13, the page modules
page_modules ==
    [executive_overview |-> executive_overview_render,
     campaign_analytics |-> campaign_analytics_render,
     customer_insights |-> customer_insights_render,
     product_performance |-> product_performance_render,
     geographic_analysis |-> geographic_analysis_render,
     attribution_funnel |-> attribution_funnel_render,
     ml_model_evaluation |-> ml_model_evaluation_render]

\* one render from step i on.  r.outcome is "running" until the render
\* returns or raises; r.copied holds the names whose frame in the render is
\* a copy, so that an assignment to any other frame is an assignment to the
\* loaded dataset
RECURSIVE Run(_, _, _)
Run(steps, i, r) ==
    IF i > Len(steps) \/ r.outcome # "running" THEN r
    ELSE LET step == steps[i]
             frame == r.data[step.dataset]
         IN  IF step.op = "read"
             THEN Run(steps, i + 1,
                      IF takes_copy(step)
                      THEN [r EXCEPT !.copied = @ \cup {step.dataset}]
                      ELSE [r EXCEPT !.copied = @ \ {step.dataset}])
             ELSE IF step.op = "return_if_empty"
             THEN IF frame.empty
                  THEN [r EXCEPT !.outcome = "not_available"]
                  ELSE Run(steps, i + 1, r)
             ELSE IF step.op = "getitem"
             THEN IF frame.empty
                  THEN [r EXCEPT !.outcome = step.error]
                  ELSE Run(steps, i + 1, r)
             ELSE IF step.op = "setitem"
             THEN Run(steps, i + 1,
                      IF step.dataset \in r.copied THEN r
                      ELSE [r EXCEPT !.data[step.dataset].assigned =
                                         @ \cup {step.column}])
             ELSE IF step.op = "px.barh"
             THEN [r EXCEPT !.outcome = "AttributeError"]
             ELSE IF frame.empty
                  THEN Run(steps, i + 1, r)
                  ELSE Run(steps, i + 1, Run(step.then, 1, r))

\* render(data): how it ended, and the datasets after it
Render(steps, datasets) ==
    LET r == Run(steps, 1,
                 [outcome |-> "running", data |-> datasets, copied |-> {}])
    IN  [r EXCEPT !.outcome = IF @ = "running" THEN "ok" ELSE @]

AppUnchanged ==
    UNCHANGED <<campaign_df, kpis, y_true, y_pred, y_prob, cm_result,
                roc_result, funnel_df, funnel_view, geo_df, growth_analysis,
                dated_df, series, product_df, customer_df, hierarchy,
                channel_df, channel_perf, files>>

\* app.py:36-56, load_all_data
LoadAllData ==
    /\ data' = load_all_data(files, <<>>, 1)
    /\ page_view' = [by |-> "load_all_data", outcome |-> "ok"]
    /\ AppUnchanged

\* app.py:448-483, main: the datasets are loaded and the selected page is
\* rendered on them
Main ==
    /\ \E selected_page \in DOMAIN pages :
          LET r == Render(pages[selected_page],
                          load_all_data(files, <<>>, 1))
          IN  /\ data' = r.data
              /\ page_view' = [by |-> selected_page, outcome |-> r.outcome]
    /\ AppUnchanged

\* pages/*.py, render(data) of a page module on the loaded datasets
RenderPage ==
    /\ data # NotLoaded
    /\ \E module \in DOMAIN page_modules :
          LET r == Render(page_modules[module], data)
          IN  /\ data' = r.data
              /\ page_view' = [by |-> module, outcome |-> r.outcome]
    /\ AppUnchanged

InitKpi ==
    /\ campaign_df \in CampaignTables
    /\ kpis = NoKpis
    /\ y_true = <<>> /\ y_pred = <<>> /\ y_prob = <<>>
    /\ cm_result = NoCm /\ roc_result = NoRoc
    /\ funnel_df = NoTable /\ funnel_view = NoFunnelView
    /\ geo_df = NoTable /\ growth_analysis = NoGrowth
    /\ dated_df = NoTable /\ series = NoSeries
    /\ product_df = NoTable /\ customer_df = NoTable /\ hierarchy = NoHierarchy
    /\ channel_df = NoTable /\ channel_perf = NoChannelPerf
    /\ files = {} /\ data = NotLoaded /\ page_view = NoView

NextKpi == CalculateKpis \/ RenderExecutiveOverview

SpecKpi == InitKpi /\ [][NextKpi]_vars

InitClassifier ==
    /\ campaign_df = NoCampaign /\ kpis = NoKpis
    /\ y_true \in SeqUpTo(LabelValues, MaxLabels)
    /\ y_pred \in SeqUpTo(LabelValues, MaxLabels)
    /\ y_prob = <<>>
    /\ cm_result = NoCm /\ roc_result = NoRoc
    /\ funnel_df = NoTable /\ funnel_view = NoFunnelView
    /\ geo_df = NoTable /\ growth_analysis = NoGrowth
    /\ dated_df = NoTable /\ series = NoSeries
    /\ product_df = NoTable /\ customer_df = NoTable /\ hierarchy = NoHierarchy
    /\ channel_df = NoTable /\ channel_perf = NoChannelPerf
    /\ files = {} /\ data = NotLoaded /\ page_view = NoView

NextClassifier == CalculateConfusionMatrix \/ RenderConfusionMatrix

SpecClassifier == InitClassifier /\ [][NextClassifier]_vars

InitRoc ==
    /\ campaign_df = NoCampaign /\ kpis = NoKpis
    /\ y_true \in SeqUpTo(LabelValues, MaxLabels)
    /\ y_pred = <<>>
    /\ y_prob \in SeqUpTo(ProbValues, MaxLabels)
    /\ cm_result = NoCm /\ roc_result = NoRoc
    /\ funnel_df = NoTable /\ funnel_view = NoFunnelView
    /\ geo_df = NoTable /\ growth_analysis = NoGrowth
    /\ dated_df = NoTable /\ series = NoSeries
    /\ product_df = NoTable /\ customer_df = NoTable /\ hierarchy = NoHierarchy
    /\ channel_df = NoTable /\ channel_perf = NoChannelPerf
    /\ files = {} /\ data = NotLoaded /\ page_view = NoView

NextRoc == CalculateRocCurve \/ RenderRocCurve

SpecRoc == InitRoc /\ [][NextRoc]_vars

InitFunnel ==
    /\ campaign_df = NoCampaign /\ kpis = NoKpis
    /\ y_true = <<>> /\ y_pred = <<>> /\ y_prob = <<>>
    /\ cm_result = NoCm /\ roc_result = NoRoc
    /\ funnel_df \in Tables(FunnelRows, MaxStages)
    /\ funnel_view = NoFunnelView
    /\ geo_df = NoTable /\ growth_analysis = NoGrowth
    /\ dated_df = NoTable /\ series = NoSeries
    /\ product_df = NoTable /\ customer_df = NoTable /\ hierarchy = NoHierarchy
    /\ channel_df = NoTable /\ channel_perf = NoChannelPerf
    /\ files = {} /\ data = NotLoaded /\ page_view = NoView

NextFunnel == RenderFunnelPage \/ RenderFunnelApp

SpecFunnel == InitFunnel /\ [][NextFunnel]_vars

InitGeo ==
    /\ campaign_df = NoCampaign /\ kpis = NoKpis
    /\ y_true = <<>> /\ y_pred = <<>> /\ y_prob = <<>>
    /\ cm_result = NoCm /\ roc_result = NoRoc
    /\ funnel_df = NoTable /\ funnel_view = NoFunnelView
    /\ geo_df \in GeoTables
    /\ growth_analysis = NoGrowth
    /\ dated_df = NoTable /\ series = NoSeries
    /\ product_df = NoTable /\ customer_df = NoTable /\ hierarchy = NoHierarchy
    /\ channel_df = NoTable /\ channel_perf = NoChannelPerf
    /\ files = {} /\ data = NotLoaded /\ page_view = NoView

NextGeo == ScoreOpportunity

SpecGeo == InitGeo /\ [][NextGeo]_vars

InitSeries ==
    /\ campaign_df = NoCampaign /\ kpis = NoKpis
    /\ y_true = <<>> /\ y_pred = <<>> /\ y_prob = <<>>
    /\ cm_result = NoCm /\ roc_result = NoRoc
    /\ funnel_df = NoTable /\ funnel_view = NoFunnelView
    /\ geo_df = NoTable /\ growth_analysis = NoGrowth
    /\ dated_df \in Tables(DatedRows, MaxRecords)
    /\ series = NoSeries
    /\ product_df = NoTable /\ customer_df = NoTable /\ hierarchy = NoHierarchy
    /\ channel_df = NoTable /\ channel_perf = NoChannelPerf
    /\ files = {} /\ data = NotLoaded /\ page_view = NoView

NextSeries ==
    \/ RenderOverviewTrend
    \/ RenderCampaignTrend
    \/ AggregateDailyRevenue
    \/ AggregateDailyRevenueAgain
    \/ AggregateWeeklyRevenue
    \/ AggregateMonthlyRevenue
    \/ RenderAppOverviewTrend
    \/ RenderAppCampaignTrend

SpecSeries == InitSeries /\ [][NextSeries]_vars

InitHierarchy ==
    /\ campaign_df = NoCampaign /\ kpis = NoKpis
    /\ y_true = <<>> /\ y_pred = <<>> /\ y_prob = <<>>
    /\ cm_result = NoCm /\ roc_result = NoRoc
    /\ funnel_df = NoTable /\ funnel_view = NoFunnelView
    /\ geo_df = NoTable /\ growth_analysis = NoGrowth
    /\ dated_df = NoTable /\ series = NoSeries
    /\ \/ product_df \in Tables(ProductRows, MaxProducts)
          /\ customer_df = NoTable
       \/ product_df = NoTable
          /\ customer_df \in Tables(CustomerRows, MaxProducts)
    /\ hierarchy = NoHierarchy
    /\ channel_df = NoTable /\ channel_perf = NoChannelPerf
    /\ files = {} /\ data = NotLoaded /\ page_view = NoView

NextHierarchy == PrepareSunburstData \/ PrepareTreemapData \/ RenderTreemap

SpecHierarchy == InitHierarchy /\ [][NextHierarchy]_vars

InitChannel ==
    /\ campaign_df = NoCampaign /\ kpis = NoKpis
    /\ y_true = <<>> /\ y_pred = <<>> /\ y_prob = <<>>
    /\ cm_result = NoCm /\ roc_result = NoRoc
    /\ funnel_df = NoTable /\ funnel_view = NoFunnelView
    /\ geo_df = NoTable /\ growth_analysis = NoGrowth
    /\ dated_df = NoTable /\ series = NoSeries
    /\ product_df = NoTable /\ customer_df = NoTable
    /\ hierarchy = NoHierarchy
    /\ channel_df \in Tables(ChannelRows, MaxChannelRows)
    /\ channel_perf = NoChannelPerf
    /\ files = {} /\ data = NotLoaded /\ page_view = NoView

NextChannel == AggregateByChannel \/ RenderChannelChart

SpecChannel == InitChannel /\ [][NextChannel]_vars

InitApp ==
    /\ campaign_df = NoCampaign /\ kpis = NoKpis
    /\ y_true = <<>> /\ y_pred = <<>> /\ y_prob = <<>>
    /\ cm_result = NoCm /\ roc_result = NoRoc
    /\ funnel_df = NoTable /\ funnel_view = NoFunnelView
    /\ geo_df = NoTable /\ growth_analysis = NoGrowth
    /\ dated_df = NoTable /\ series = NoSeries
    /\ product_df = NoTable /\ customer_df = NoTable
    /\ hierarchy = NoHierarchy
    /\ channel_df = NoTable /\ channel_perf = NoChannelPerf
    /\ files \in SUBSET DatasetNames
    /\ data = NotLoaded /\ page_view = NoView

NextApp == LoadAllData \/ Main \/ RenderPage

SpecApp == InitApp /\ [][NextApp]_vars

(***************************************************************************)
(* Properties.                                                             *)
(***************************************************************************)

\* the integer a text of digits, "," and a leading "-" stands for
DigitValue(c) == CHOOSE d \in 0..9 : DigitChars[d + 1] = c

RECURSIVE ParseDigits(_, _)
ParseDigits(t, acc) ==
    IF t = <<>> THEN acc
    ELSE IF Head(t) = "," THEN ParseDigits(Tail(t), acc)
    ELSE ParseDigits(Tail(t), 10 * acc + DigitValue(Head(t)))

ParseThousands(t) ==
    IF t # <<>> /\ Head(t) = "-" THEN 0 - ParseDigits(Tail(t), 0)
    ELSE ParseDigits(t, 0)

\* C1: when the KPI computation returns for a campaign table that has the
\* revenue and spend columns, roas is total_revenue / total_spend if the sum
\* of spend is positive and 0 if it is 0, on both code paths
C1_Roas ==
    (kpis.outcome = "ok" /\ {"revenue", "spend"} \subseteq campaign_df.columns)
    => LET total_revenue == SumSeq(campaign_df.revenue)
           total_spend == SumSeq(campaign_df.spend)
       IN  IF total_spend > 0
           THEN RatEq(kpis.roas, total_revenue, total_spend)
           ELSE kpis.roas = Zero

\* revenue 100 + 50 and spend 50 + 50 give roas 1.5
C1_Witness ==
    /\ kpis.by = "calculate_kpis" /\ kpis.outcome = "ok"
    /\ campaign_df.revenue = <<100, 50>> /\ campaign_df.spend = <<50, 50>>
    /\ RatEq(kpis.roas, 3, 2)

BinaryLabels(y) == Classes(y) \subseteq {0, 1}

\* C2: for non-empty equal-length sequences of labels in {0,1}, single-class
\* inputs included, the confusion-matrix computation returns TN, FP, FN, TP
\* as the counts of (0,0), (0,1), (1,0), (1,1), which add up to the number
\* of labels
C2_CountsEveryIndex ==
    (/\ cm_result.by # "none"
     /\ Len(y_true) = Len(y_pred) /\ Len(y_true) >= 1
     /\ BinaryLabels(y_true) /\ BinaryLabels(y_pred))
    => /\ cm_result.outcome = "ok"
       /\ cm_result.tn = Count(y_true, y_pred, 0, 0)
       /\ cm_result.fp = Count(y_true, y_pred, 0, 1)
       /\ cm_result.fn = Count(y_true, y_pred, 1, 0)
       /\ cm_result.tp = Count(y_true, y_pred, 1, 1)
       /\ cm_result.tp + cm_result.fp + cm_result.tn + cm_result.fn
            = Len(y_true)

\* C3: for equal-length sequences of labels in {0,1}, each of sensitivity,
\* specificity, precision and accuracy is returned, and is 0 when its
\* denominator is 0 (accuracy for no label at all)
C3_ZeroDenominatorGivesZero ==
    (/\ cm_result.by # "none"
     /\ Len(y_true) = Len(y_pred)
     /\ BinaryLabels(y_true) /\ BinaryLabels(y_pred))
    => LET tn == Count(y_true, y_pred, 0, 0)
           fp == Count(y_true, y_pred, 0, 1)
           fn == Count(y_true, y_pred, 1, 0)
           tp == Count(y_true, y_pred, 1, 1)
       IN  /\ cm_result.outcome = "ok"
           /\ tp + fn = 0 => cm_result.sensitivity = Zero
           /\ tn + fp = 0 => cm_result.specificity = Zero
           /\ tp + fp = 0 => cm_result.precision = Zero
           /\ tp + tn + fp + fn = 0 => cm_result.accuracy = Zero

ValidProbs(y) == \A i \in DOMAIN y : 0 <= y[i] /\ y[i] <= 100

RocPrecondition ==
    /\ roc_result.by # "none"
    /\ Len(y_true) = Len(y_prob)
    /\ Classes(y_true) = {0, 1}
    /\ ValidProbs(y_prob)

\* C4: for labels with both classes and probabilities in [0,1] the ROC
\* sequence starts at (0,0), ends at (1,1), its fpr and tpr never decrease,
\* and the AUC lies in [0,1]
C4_RocShape ==
    RocPrecondition
    => LET fpr == roc_result.fpr
           tpr == roc_result.tpr
           n == Len(fpr)
       IN  /\ roc_result.outcome = "ok"
           /\ n >= 2 /\ Len(tpr) = n
           /\ \A i \in 1..n : IsNum(fpr[i]) /\ IsNum(tpr[i])
           /\ RatEq(fpr[1], 0, 1) /\ RatEq(tpr[1], 0, 1)
           /\ RatEq(fpr[n], 1, 1) /\ RatEq(tpr[n], 1, 1)
           /\ \A i \in 1..(n - 1) :
                 RatLe(fpr[i], fpr[i + 1]) /\ RatLe(tpr[i], tpr[i + 1])
           /\ IsNum(roc_result.auc)
           /\ 0 <= roc_result.auc.n /\ roc_result.auc.n <= roc_result.auc.d

\* a curve of four points whose AUC is strictly between 0 and 1
C4_Witness ==
    /\ RocPrecondition /\ roc_result.outcome = "ok"
    /\ Len(roc_result.fpr) >= 4
    /\ 0 < roc_result.auc.n /\ roc_result.auc.n < roc_result.auc.d

\* the rows are stages, one row per stage
OneRowPerStage(rows) ==
    /\ \A i \in DOMAIN rows : IsStage(rows[i].stage)
    /\ \A i, j \in DOMAIN rows : rows[i].stage = rows[j].stage => i = j

DistinctVisitors(rows) ==
    \A i, j \in DOMAIN rows : rows[i].visitors = rows[j].visitors => i = j

InCanonicalOrderStrict(s) ==
    \A i \in 1..(Len(s) - 1) : StageCode(s[i].stage) < StageCode(s[i + 1].stage)

InReverseCanonicalOrder(s) ==
    \A i \in 1..(Len(s) - 1) : StageCode(s[i].stage) > StageCode(s[i + 1].stage)

FunnelPageDone == funnel_view.by = "render" /\ funnel_view.outcome = "ok"

CountRow(s, r) == Cardinality({i \in DOMAIN s : s[i] = r})

RECURSIVE SumDropOffs(_, _)
SumDropOffs(metrics, i) ==
    IF i > Len(metrics) THEN 0
    ELSE ParseThousands(metrics[i].drop_off) + SumDropOffs(metrics, i + 1)

C7_CanonicalOrderOnEveryPath ==
    (/\ funnel_view.outcome = "ok"
     /\ OneRowPerStage(funnel_df.rows) /\ DistinctVisitors(funnel_df.rows))
    => \/ InCanonicalOrderStrict(funnel_view.shown)
       \/ InReverseCanonicalOrder(funnel_view.shown)

GeoRow(state) == geo_df.rows[state]

C10_NeverRaises ==
    kpis.by # "none"
    => /\ kpis.outcome \in {"ok", "not_available"}
       /\ "revenue" \notin campaign_df.columns => kpis.total_revenue = 0
       /\ "conversions" \notin campaign_df.columns
             => kpis.total_conversions = 0
       /\ "clicks" \notin campaign_df.columns
             => kpis.avg_conversion_rate = Zero

SpendSum == SumSeq(campaign_df.spend)

\* C11 as stated: total_spend is the sum of the spend column, and 1 both
\* when the column is absent and when its sum is 0, so that it is never 0
C11_SpendDefaultedToOne ==
    kpis.outcome = "ok"
    => /\ kpis.total_spend # 0
       /\ kpis.total_spend
            = IF "spend" \in campaign_df.columns /\ SpendSum # 0
              THEN SpendSum ELSE 1

\* C11 amended: when the KPI computation returns, total_spend is the sum of
\* the spend column where the table has one, also when that sum is 0, and 1
\* only where the column is absent (which only app.py's computation
\* survives); a total_spend of 0 is never divided by: roas is then 0
C11_SpendSumOrOneWhenAbsent ==
    kpis.outcome = "ok"
    => /\ kpis.total_spend
            = IF "spend" \in campaign_df.columns THEN SpendSum ELSE 1
       /\ IsNum(kpis.roas)
       /\ kpis.total_spend = 0 => kpis.roas = Zero

\* app.py's computation on a table whose spend column sums to 0
C11_Witness ==
    /\ kpis.by = "render_executive_overview" /\ kpis.outcome = "ok"
    /\ "spend" \in campaign_df.columns /\ campaign_df.spend = <<0, 0>>
    /\ "revenue" \in campaign_df.columns
    /\ kpis.total_spend = 0 /\ kpis.roas = Zero

\* C12: when utils.calculate_kpis returns, avg_conversion_rate is
\* total_conversions / total_clicks * 100 if the table has a clicks column
\* whose sum is greater than 0, and 0 if it has none or the sum is 0
C12_AvgConversionRate ==
    (kpis.by = "calculate_kpis" /\ kpis.outcome = "ok")
    => IF "clicks" \in campaign_df.columns /\ SumSeq(campaign_df.clicks) > 0
       THEN RatEq(kpis.avg_conversion_rate,
                  100 * SumSeq(campaign_df.conversions),
                  SumSeq(campaign_df.clicks))
       ELSE kpis.avg_conversion_rate = Zero

\* conversions 5 + 2 and clicks 20 + 10 give 7 / 30 * 100
C12_Witness ==
    /\ kpis.by = "calculate_kpis" /\ kpis.outcome = "ok"
    /\ campaign_df.conversions = <<5, 2>> /\ campaign_df.clicks = <<20, 10>>
    /\ RatEq(kpis.avg_conversion_rate, 700, 30)

\* C13: for label sequences of different lengths the confusion-matrix
\* computation fails with an error (a ValueError) and returns no count and
\* no metric
C13_LengthsDifferFails ==
    (cm_result.by # "none" /\ Len(y_true) # Len(y_pred))
    => cm_result = [NoCm EXCEPT !.by = cm_result.by, !.outcome = "ValueError"]

\* two labels against three predictions, both classes in each
C13_Witness ==
    /\ cm_result.by = "calculate_confusion_matrix"
    /\ y_true = <<0, 1>> /\ y_pred = <<0, 1, 1>>
    /\ cm_result.outcome = "ValueError"

\* C14: for equal-length sequences with a label outside {0,1} the
\* confusion-matrix computation fails with an error and returns no TN/FP/FN/TP
\* counts, also when exactly two distinct label values occur
C14_LabelOutsideBinaryFails ==
    (/\ cm_result.by # "none"
     /\ Len(y_true) = Len(y_pred)
     /\ ~(BinaryLabels(y_true) /\ BinaryLabels(y_pred)))
    => cm_result.outcome = "ValueError"

\* C15: for equal-length inputs with a probability outside [0,1] the ROC
\* computation fails with an error and returns no curve and no AUC
C15_ProbabilityOutsideUnitFails ==
    (/\ roc_result.by # "none"
     /\ Len(y_true) = Len(y_prob)
     /\ ~ValidProbs(y_prob))
    => /\ roc_result.outcome = "ValueError"
       /\ roc_result.fpr = <<>> /\ roc_result.tpr = <<>>

\* C16: when all ground-truth labels are identical the ROC computation fails
\* with an error, or returns an AUC that is not a number as its sentinel; it
\* reports no optimal threshold and no model-quality grade
C16_DegenerateLabelsNotGraded ==
    (/\ roc_result.by # "none"
     /\ Len(y_true) = Len(y_prob) /\ Len(y_true) >= 1
     /\ Cardinality(Classes(y_true)) = 1)
    => \/ roc_result.outcome = "ValueError"
       \/ /\ ~IsNum(roc_result.auc)
          /\ roc_result.optimal_idx = 0
          /\ roc_result.quality = "none"

C18_OptimalThresholdFromInput ==
    (RocPrecondition /\ roc_result.by = "render")
    => /\ roc_result.outcome = "ok"
       /\ roc_result.optimal_idx \in DOMAIN roc_result.thresholds
       /\ \A j \in DOMAIN roc_result.fpr :
             /\ YoudenJ(roc_result, j) <= YoudenJ(roc_result, roc_result.optimal_idx)
             /\ j < roc_result.optimal_idx
                  => YoudenJ(roc_result, j) < YoudenJ(roc_result, roc_result.optimal_idx)
       /\ roc_result.optimal_threshold
            = roc_result.thresholds[roc_result.optimal_idx]
       /\ ~roc_result.optimal_threshold.inf
       /\ roc_result.optimal_threshold.v \in Classes(y_prob)

\* the day number, counted from 2024-01-01, of the first day of each month
MonthStarts == <<0, 31, 60, 91, 121, 152, 182, 213, 244, 274, 305, 335>>

\* the calendar day of an input date cell as a day number; none for a text
\* that is no date
HasDate(c) == c.kind \in {"text", "Timestamp"}
CalendarDay(c) == IF c.kind = "text" THEN MonthStarts[c.m] + c.d - 1 ELSE c.day

IsMonthStart(day) == \E m \in DOMAIN MonthStarts : MonthStarts[m] = day

\* day lies in the bucket that starts at start: the same date, the seven
\* days from a Monday, or the days from the first of a month up to the next
InBucket(agg, start, day) ==
    CASE agg = "Daily" -> day = start
      [] agg = "Weekly" ->
            start % 7 = 0 /\ start <= day /\ day <= start + 6
      [] OTHER ->
            /\ IsMonthStart(start) /\ start <= day
            /\ \A m \in DOMAIN MonthStarts :
                  MonthStarts[m] <= day => MonthStarts[m] <= start

DatedRecords == {i \in DOMAIN dated_df.rows : HasDate(dated_df.rows[i].date)}
RecordDay(i) == CalendarDay(dated_df.rows[i].date)

RECURSIVE SumRevenueOf(_)
SumRevenueOf(I) ==
    IF I = {} THEN 0
    ELSE LET i == CHOOSE k \in I : TRUE
         IN  dated_df.rows[i].revenue + SumRevenueOf(I \ {i})

\* C19: for Daily, Weekly and Monthly alike, a series that is returned has a
\* row for a bucket exactly if some input record falls in it (no row for a
\* bucket without a record), one row per bucket, and its rows are in strictly
\* ascending order of bucket start whatever the order of the input
C19_OneRowPerBucketAscending ==
    series.outcome = "ok"
    => LET out == series.rows
       IN  /\ \A k \in DOMAIN out :
                 \E i \in DatedRecords :
                    InBucket(series.agg, out[k].date.day, RecordDay(i))
           /\ \A i \in DatedRecords :
                 \E k \in DOMAIN out :
                    InBucket(series.agg, out[k].date.day, RecordDay(i))
           /\ \A k \in 1..(Len(out) - 1) :
                 out[k].date.day < out[k + 1].date.day

\* a page's Weekly series of 1 Feb, 7 Jan, 31 Jan given in that order: the
\* week of 1 Jan, then the week of 29 Jan, and none of the weeks between
C19_Witness ==
    /\ series.by = "executive_overview" /\ series.agg = "Weekly"
    /\ series.outcome = "ok"
    /\ Len(dated_df.rows) = 3
    /\ dated_df.rows[1].date = Text(2, 1)
    /\ dated_df.rows[2].date = Text(1, 7)
    /\ dated_df.rows[3].date = Text(1, 31)
    /\ Len(series.rows) = 2
    /\ series.rows[1].date = Timestamp(0)
    /\ series.rows[2].date = Timestamp(28)

\* C20: in a series that is returned every dated record falls in the bucket
\* of exactly one row (Daily: its date; Weekly: the Monday of its week, the
\* date within start .. start + 6; Monthly: the first day of its month), and
\* a row's value is the sum of revenue over exactly the records in its bucket
C20_EachRecordInOneBucket ==
    series.outcome = "ok"
    => LET out == series.rows
       IN  /\ \A i \in DatedRecords :
                 Cardinality({k \in DOMAIN out :
                     InBucket(series.agg, out[k].date.day, RecordDay(i))}) = 1
           /\ \A k \in DOMAIN out :
                 out[k].revenue =
                    SumRevenueOf({i \in DatedRecords :
                        InBucket(series.agg, out[k].date.day, RecordDay(i))})

\* a Weekly series of three records in which the week of Monday 29 Jan
\* holds the records of 31 Jan and 1 Feb, with different revenues
C20_Witness ==
    /\ series.outcome = "ok" /\ series.agg = "Weekly"
    /\ Len(dated_df.rows) = 3
    /\ {RecordDay(i) : i \in DatedRecords} = {6, 30, 31}
    /\ Len(series.rows) = 2
    /\ series.rows[1].date.day = 0
    /\ series.rows[2].date.day = 28
    /\ series.rows[2].revenue = 150

\* the rows of a series the dates of which are all parseable, computed from
\* the input: one row per bucket that holds a dated record, ascending
ExpectedStarts ==
    {start \in 0..365 :
        \E i \in DatedRecords : InBucket(series.agg, start, RecordDay(i))}

\* C21: when some input record has an unparsable date, every time-series
\* entry point returns, without raising, the series of the other records:
\* one row per bucket they occupy, with the sum of their revenue
C21_UnparsableDatesDropped ==
    (/\ series.by # "none"
     /\ dated_df.has_columns
     /\ \E i \in DOMAIN dated_df.rows : ~HasDate(dated_df.rows[i].date))
    => /\ series.outcome = "ok"
       /\ {series.rows[k].date.day : k \in DOMAIN series.rows} = ExpectedStarts
       /\ \A k \in DOMAIN series.rows :
             series.rows[k].revenue =
                SumRevenueOf({i \in DatedRecords :
                    InBucket(series.agg, series.rows[k].date.day,
                             RecordDay(i))})

\* the tenths of a percentage a text "d...d.d%" stands for
RECURSIVE ParsePercentTenths(_, _)
ParsePercentTenths(t, acc) ==
    IF t = <<>> \/ Head(t) = "%" THEN acc
    ELSE IF Head(t) = "." THEN ParsePercentTenths(Tail(t), acc)
    ELSE ParsePercentTenths(Tail(t), 10 * acc + DigitValue(Head(t)))

Abs(x) == IF x < 0 THEN 0 - x ELSE x

\* C22: Daily aggregation of the table that a Daily aggregation returned gives
\* the same series: the same rows with the same sums in the same order
C22_DailyIdempotent ==
    [][AggregateDailyRevenueAgain => series'.rows = series.rows]_vars

\* a Daily series of two dates has been aggregated again
C22_Witness ==
    /\ series.by = "aggregate_daily_revenue of a daily series"
    /\ Len(series.rows) >= 2
    /\ \E i \in DOMAIN series.rows : series.rows[i].revenue = 150

C24_LoaderReturnsEveryDataset ==
    page_view.by = "load_all_data" =>
        /\ page_view.outcome = "ok"
        /\ DOMAIN data = DatasetNames
        /\ Cardinality(DOMAIN data) = 11
        /\ \A n \in DatasetNames :
              data[n] = IF n \in files THEN CsvFrame(n) ELSE EmptyFrame

\* loaded with the first file and another one missing, and files after them
\* there
C24_Witness ==
    /\ page_view.by = "load_all_data"
    /\ files = DatasetNames \ {"campaign_performance", "geographic_data"}
    /\ data["learning_curve"] = CsvFrame("learning_curve")
    /\ data["correlation_matrix"] = CsvFrame("correlation_matrix")

\* C25: no aggregation helper changes the table it is given
C25_InputUnchanged == [][dated_df' = dated_df]_vars

PlainRows(rows) == [k \in DOMAIN rows |-> <<rows[k].date.day, rows[k].revenue>>]

RECURSIVE SumRows(_, _)
SumRows(rows, k) ==
    IF k > Len(rows) THEN 0 ELSE rows[k].revenue + SumRows(rows, k + 1)

\* C26: whatever datasets are unavailable, every render, of a page module
\* and of app.py alike, ends in a normal render or in the data-not-available
\* state and never in an error
C26_RenderNeverFails ==
    page_view.outcome \in {"none", "ok", "not_available"}

\* C27: after any sequence of loads and renders the datasets are the ones the
\* loader returned: no render has assigned a column of a loaded dataset or
\* changed its rows, the datasets read without a copy included
C27_DatasetsUnchanged ==
    data # NotLoaded => data = load_all_data(files, <<>>, 1)

\* the attribution page module, which assigns funnel_df['stage'] and reads
\* channel_attribution without a copy, has rendered to its end
C27_Witness ==
    /\ page_view.by = "attribution_funnel"
    /\ page_view.outcome = "ok"
    /\ ~data["funnel_data"].empty
    /\ ~data["channel_attribution"].empty

\* C29: a series a page returns (sums per date, then per period start) has
\* the bucket starts and values of the helpers' direct grouping of the same
\* records, and the values of every returned series add up to the revenue of
\* all records that have a date
C29_TwoStageEqualsDirect ==
    series.outcome = "ok"
    => /\ series.by \in {"executive_overview", "campaign_analytics"}
          => PlainRows(series.rows)
               = PlainRows(helper_revenue_series(
                               WithParsedDates(dated_df.rows), series.agg))
       /\ SumRows(series.rows, 1) = SumRevenueOf(DatedRecords)

\* a page's Monthly series of two records of 7 Jan, which the first stage
\* merges, one of 31 Jan and none of February: one row
C29_Witness ==
    /\ series.by = "campaign_analytics" /\ series.agg = "Monthly"
    /\ series.outcome = "ok"
    /\ Len(dated_df.rows) = 3
    /\ dated_df.rows[1] = [date |-> Text(1, 7), revenue |-> 50]
    /\ dated_df.rows[2] = [date |-> Text(1, 31), revenue |-> 100]
    /\ dated_df.rows[3] = [date |-> Text(1, 7), revenue |-> 100]
    /\ series.rows = <<[date |-> Timestamp(0), revenue |-> 250]>>

Nodes == hierarchy.rows
Children(k) == {c \in DOMAIN Nodes : Nodes[c].parent = Nodes[k].label}

RECURSIVE SumValues(_)
SumValues(K) ==
    IF K = {} THEN 0
    ELSE LET k == CHOOSE c \in K : TRUE
         IN  Nodes[k].value + SumValues(K \ {k})

\* C30: in a hierarchy table that is built, the value of every node that has
\* children is the sum of its children's values, the parent label of every
\* node but the root is the label of exactly one node, and no two nodes have
\* one label, also when a subcategory name occurs under two categories
C30_HierarchyWellFormed ==
    hierarchy.outcome = "ok"
    => /\ \A k \in DOMAIN Nodes :
             Children(k) # {} => Nodes[k].value = SumValues(Children(k))
       /\ \A k \in DOMAIN Nodes :
             Nodes[k].parent # <<>>
             => Cardinality({p \in DOMAIN Nodes :
                               Nodes[p].label = Nodes[k].parent}) = 1
       /\ \A k, l \in DOMAIN Nodes : Nodes[k].label = Nodes[l].label => k = l

ChannelRecords(c) ==
    SelectSeq(channel_df.rows, LAMBDA r : r.channel = c)

\* C28: the per-channel ROAS follows the zero-spend policy of the overall
\* ROAS: for every channel it is revenue / spend of the channel when that
\* spend is > 0 and 0 when it is 0, so every entry of the ranking is a
\* finite number
C28_ChannelRoasZeroSpendPolicy ==
    (channel_perf.by # "none" /\ channel_perf.metric = "roas"
     /\ channel_df.has_columns)
    => \A k \in DOMAIN channel_perf.rows :
          LET revenue == SumField(ChannelRecords(channel_perf.rows[k].channel),
                                  "revenue")
              spend == SumField(ChannelRecords(channel_perf.rows[k].channel),
                                "spend")
          IN  /\ IsNum(channel_perf.rows[k].value)
              /\ IF spend > 0
                 THEN RatEq(channel_perf.rows[k].value, revenue, spend)
                 ELSE channel_perf.rows[k].value = Zero

====
